---- MODULE Spec2Model ----
(***************************************************************************)
(* A model of src/cdhash.c: compute_cdhash over an untrusted Mach-O buffer. *)
(*                                                                         *)
(* The buffer is a byte memory.  Offsets are relative to the buffer start  *)
(* (the pointer mh).  A uint32_t value is a pair <<hi, lo>> of 16-bit      *)
(* halves, so that the full 32-bit range is kept; pointer and size_t       *)
(* arithmetic is 64-bit in the build (arm64), where the sums of a few      *)
(* uint32_t the code forms never wrap, and is done on such pairs with an   *)
(* unbounded high half.                                                    *)
(***************************************************************************)
EXTENDS Integers, Sequences, FiniteSets, TLC

VARIABLES
    mem,            \* byte offset -> byte: the file bytes and what lies after them
    size,           \* the size argument of compute_cdhash
    pc,             \* position in the call
    lc_p,           \* macho_validate: lc_p
    lc_prev,        \* macho_validate / macho_find_load_command: the previous cursor
    loadcmd,        \* macho_find_load_command: loadcmd (NULL or an offset)
    blob,           \* csblob_cdhash: blob (offset of cs_data)
    blob_size,      \* csblob_cdhash: size (cs_end - cs_data)
    sb_size,        \* cs_superblob_cdhash: size (the super-blob's length)
    idx,            \* cs_superblob_cdhash: i
    best_cd,        \* cs_superblob_cdhash: best_cd (NULL or an offset)
    best_cd_rank,   \* cs_superblob_cdhash: best_cd_rank
    best_cd_size,   \* cs_superblob_cdhash: best_cd_size
    cd,             \* cs_codedirectory_cdhash: cd (offset)
    cdhash,         \* the caller's cdhash_out buffer
    writes,         \* number of memcpy calls into cdhash_out
    ret,            \* "none" while running, then "true" or "false"
    rd_end          \* the largest o+w over all reads of bytes o..o+w-1 so far

vars == <<mem, size, pc, lc_p, lc_prev, loadcmd, blob, blob_size, sb_size, idx,
          best_cd, best_cd_rank, best_cd_size, cd, cdhash, writes, ret, rd_end>>

(***************************************************************************)
(* Bounds of the model.                                                    *)
(***************************************************************************)
MaxCmds == 2
MaxCount == 2

(***************************************************************************)
(* Program constants.                                                      *)
(***************************************************************************)
NULL == -1
MinMachoSize == 4096
SizeofMachHeader == 32
SizeofcmdsOffset == 20
CmdsizeOffset == 4
SizeofLoadCommand == 8
DataoffOffset == 8
DatasizeOffset == 12
SizeofLinkeditDataCommand == 16
LC_CODE_SIGNATURE == 29
LC_SEGMENT_64 == 25
SizeofGenericBlob == 8
SizeofSuperBlob == 12
SizeofBlobIndex == 8
SizeofCodeDirectory == 88
LengthOffset == 4
CountOffset == 8
HashTypeOffset == 37
CS_HASHTYPE_SHA1 == 1
CS_HASHTYPE_SHA256 == 2
CS_HASHTYPE_SHA256_TRUNCATED == 3
CS_HASHTYPE_SHA384 == 4
CS_CDHASH_LEN == 20
CC_SHA1_DIGEST_LENGTH == 20
CC_SHA256_DIGEST_LENGTH == 32
Half == 65536

\* 0xfeedfacf, 0xfeedface
MH_MAGIC_64 == <<65261, 64207>>
MH_MAGIC == <<65261, 64206>>
\* 0xfade0cc0, 0xfade0c02, 0xfade0c01
CSMAGIC_EMBEDDED_SIGNATURE == <<64222, 3264>>
CSMAGIC_CODEDIRECTORY == <<64222, 3074>>
CSMAGIC_REQUIREMENTS == <<64222, 3073>>
\* 0, 0x1000, 0x1000 + 5
CSSLOT_CODEDIRECTORY == <<0, 0>>
CSSLOT_ALTERNATE_CODEDIRECTORIES == <<0, 4096>>
CSSLOT_ALTERNATE_CODEDIRECTORY_LIMIT == <<0, 4101>>
CSSLOT_REQUIREMENTS == <<0, 2>>
\* 0x80000000, 0x10000
CmdsizeLimit == <<32768, 0>>
CountLimit == <<1, 0>>

(***************************************************************************)
(* Wide unsigned arithmetic on pairs <<hi, lo>>, lo < 65536.               *)
(***************************************************************************)
W(n) == <<n \div Half, n % Half>>
ToInt(w) == w[1] * Half + w[2]
WAdd(a, b) == <<a[1] + b[1] + ((a[2] + b[2]) \div Half), (a[2] + b[2]) % Half>>
WMul(a, k) == <<a[1] * k + ((a[2] * k) \div Half), (a[2] * k) % Half>>
WLt(a, b) == a[1] < b[1] \/ (a[1] = b[1] /\ a[2] < b[2])
WLe(a, b) == a = b \/ WLt(a, b)
Max(a, b) == IF a >= b THEN a ELSE b

(***************************************************************************)
(* Memory reads.                                                           *)
(***************************************************************************)
Byte(o) == IF o \in DOMAIN mem THEN mem[o] ELSE 0
\* a uint32_t load on the little-endian host
Read32(o) == <<Byte(o + 2) + 256 * Byte(o + 3), Byte(o) + 256 * Byte(o + 1)>>
\* ntohl: the four bytes of the value reversed
ntohl(x) == <<(x[2] % 256) * 256 + (x[2] \div 256), (x[1] % 256) * 256 + (x[1] \div 256)>>

(***************************************************************************)
(* The caller's buffer.  A patch is a function from byte offsets to bytes; *)
(* f @@ g keeps f where both are defined.                                  *)
(***************************************************************************)
NoBytes == [o \in {} |-> 0]
\* the bytes of a uint32_t stored by a little-endian host at offset o
PutLE(o, w) == (o :> (w[2] % 256)) @@ ((o + 1) :> (w[2] \div 256))
               @@ ((o + 2) :> (w[1] % 256)) @@ ((o + 3) :> (w[1] \div 256))
\* the bytes of a big-endian (wire order) uint32_t at offset o
PutBE(o, w) == (o :> (w[1] \div 256)) @@ ((o + 1) :> (w[1] % 256))
               @@ ((o + 2) :> (w[2] \div 256)) @@ ((o + 3) :> (w[2] % 256))

\* struct mach_header_64: magic and sizeofcmds
HeaderBytes(magic, sizeofcmds) == PutLE(0, magic) @@ PutLE(SizeofcmdsOffset, sizeofcmds)

\* struct load_command / struct linkedit_data_command at offset o
CmdBytes(c, o) ==
    PutLE(o, W(c.cmd)) @@ PutLE(o + CmdsizeOffset, c.cmdsize)
    @@ IF c.data
       THEN PutLE(o + DataoffOffset, c.dataoff) @@ PutLE(o + DatasizeOffset, c.datasize)
       ELSE NoBytes

\* the load-command table: each command follows the previous one at its stride
RECURSIVE TableBytes(_, _)
TableBytes(cmds, o) ==
    IF cmds = <<>> THEN NoBytes
    ELSE CmdBytes(Head(cmds), o) @@ TableBytes(Tail(cmds), o + Head(cmds).stride)

\* CS_CodeDirectory at offset o: magic, length, hashType
CdBytes(o, magic, length, hashType) ==
    PutBE(o, magic) @@ PutBE(o + LengthOffset, length) @@ ((o + HashTypeOffset) :> hashType)

\* CS_BlobIndex entries from offset o on
RECURSIVE IndexBytes(_, _)
IndexBytes(es, o) ==
    IF es = <<>> THEN NoBytes
    ELSE PutBE(o, Head(es).type) @@ PutBE(o + 4, Head(es).offset)
         @@ IndexBytes(Tail(es), o + SizeofBlobIndex)

\* where the signature blob of the generated files lies, and its nominal length
SigRegion == [off |-> 3072, len |-> 1024]
BlobOff == SigRegion.off
BlobLen == SigRegion.len

\* the code directories laid out in the generated signature blob, by blob offset
CdLib ==
    { [off |-> 64,  magic |-> CSMAGIC_CODEDIRECTORY, length |-> W(88),   hashType |-> CS_HASHTYPE_SHA1],
      [off |-> 160, magic |-> CSMAGIC_CODEDIRECTORY, length |-> W(100),  hashType |-> CS_HASHTYPE_SHA256],
      [off |-> 264, magic |-> CSMAGIC_CODEDIRECTORY, length |-> W(88),   hashType |-> CS_HASHTYPE_SHA384],
      [off |-> 360, magic |-> CSMAGIC_CODEDIRECTORY, length |-> W(88),   hashType |-> CS_HASHTYPE_SHA256_TRUNCATED],
      [off |-> 456, magic |-> CSMAGIC_REQUIREMENTS,  length |-> W(88),   hashType |-> CS_HASHTYPE_SHA256],
      [off |-> 552, magic |-> CSMAGIC_CODEDIRECTORY, length |-> W(0),    hashType |-> CS_HASHTYPE_SHA256],
      [off |-> 648, magic |-> CSMAGIC_CODEDIRECTORY, length |-> W(40),   hashType |-> CS_HASHTYPE_SHA256],
      [off |-> 744, magic |-> CSMAGIC_CODEDIRECTORY, length |-> W(88),   hashType |-> 0],
      [off |-> 840, magic |-> CSMAGIC_CODEDIRECTORY, length |-> W(88),   hashType |-> CS_HASHTYPE_SHA256],
      [off |-> 936, magic |-> CSMAGIC_CODEDIRECTORY, length |-> W(2000), hashType |-> CS_HASHTYPE_SHA256],
      [off |-> 960, magic |-> CSMAGIC_CODEDIRECTORY, length |-> W(64),   hashType |-> CS_HASHTYPE_SHA1] }

RECURSIVE LibBytes(_)
LibBytes(S) ==
    IF S = {} THEN NoBytes
    ELSE LET c == CHOOSE x \in S : TRUE
         IN CdBytes(BlobOff + c.off, c.magic, c.length, c.hashType) @@ LibBytes(S \ {c})

\* a signature blob: header fields, hashType byte of a bare code directory, index, library
BlobBytes(magic, length, count, hashType, es) ==
    PutBE(BlobOff, magic) @@ PutBE(BlobOff + LengthOffset, length)
    @@ PutBE(BlobOff + CountOffset, count)
    @@ IndexBytes(es, BlobOff + SizeofSuperBlob)
    @@ ((BlobOff + HashTypeOffset) :> hashType)
    @@ LibBytes(CdLib)

Seg(cmdsize, stride) ==
    [cmd |-> LC_SEGMENT_64, cmdsize |-> cmdsize, data |-> FALSE,
     dataoff |-> W(0), datasize |-> W(0), stride |-> stride]
Sig(cmdsize, dataoff, datasize) ==
    [cmd |-> LC_CODE_SIGNATURE, cmdsize |-> W(cmdsize), data |-> cmdsize >= SizeofLinkeditDataCommand,
     dataoff |-> dataoff, datasize |-> datasize, stride |-> cmdsize]

\* the load commands a generated file is made of
CmdChoices ==
    { Seg(W(16), 16),                      \* an ordinary command
      Seg(W(0), 16),                       \* cmdsize 0
      Seg(CmdsizeLimit, 16),               \* cmdsize 0x80000000
      Seg(W(4064), 4064),                  \* the next command starts at offset 4096
      Sig(16, W(BlobOff), W(BlobLen)),     \* the region [3072, 4096)
      Sig(16, W(BlobOff), W(BlobLen + 1)), \* the region [3072, 4097)
      Sig(16, W(0), W(BlobLen)),           \* dataoff 0
      Sig(16, W(BlobOff), W(0)),           \* datasize 0
      Sig(16, W(BlobOff), <<65535, 65535>>), \* datasize 0xffffffff
      Sig(16, W(BlobOff), W(4)),           \* a region shorter than a blob header
      Sig(8, W(0), W(0)) }                 \* a command shorter than linkedit_data_command

RECURSIVE SeqsUpTo(_, _)
SeqsUpTo(S, n) ==
    IF n = 0 THEN {<<>>}
    ELSE LET R == SeqsUpTo(S, n - 1)
         IN R \cup {Append(r, x) : r \in {q \in R : Len(q) = n - 1}, x \in S}

GoodCmds == <<Sig(16, W(BlobOff), W(BlobLen))>>
Entry(type, off) == [type |-> type, offset |-> W(off)]
GoodEntries == <<Entry(CSSLOT_CODEDIRECTORY, 160)>>
GoodBlob == BlobBytes(CSMAGIC_EMBEDDED_SIGNATURE, W(BlobLen), W(1), 0, GoodEntries)

SizeChoices == {4095, 4096, 8192}
MagicChoices == {MH_MAGIC_64, MH_MAGIC}
SizeofcmdsChoices == {W(0), W(16), W(32), W(4096), W(8193)}
BlobMagicChoices == {CSMAGIC_EMBEDDED_SIGNATURE, CSMAGIC_CODEDIRECTORY, CSMAGIC_REQUIREMENTS}
BlobLengthChoices == {W(0), W(8), W(12), W(20), W(BlobLen), W(BlobLen + 1), <<65535, 65535>>}
CountChoices == {W(0), W(1), W(2), W(127), CountLimit}
HashTypeChoices == {0, CS_HASHTYPE_SHA1, CS_HASHTYPE_SHA256, CS_HASHTYPE_SHA256_TRUNCATED}
EntryChoices ==
    { Entry(CSSLOT_CODEDIRECTORY, c.off) : c \in CdLib }
    \cup { Entry(CSSLOT_CODEDIRECTORY, BlobLen), Entry(CSSLOT_CODEDIRECTORY, BlobLen + 1),
           Entry(CSSLOT_ALTERNATE_CODEDIRECTORIES, 64), Entry(CSSLOT_ALTERNATE_CODEDIRECTORIES, 160),
           Entry(<<0, 4100>>, 264),
           Entry(CSSLOT_ALTERNATE_CODEDIRECTORY_LIMIT, 456),
           Entry(CSSLOT_REQUIREMENTS, 64), Entry(CSSLOT_REQUIREMENTS, BlobLen + 1) }

\* files that vary the Mach-O header around a well-formed signature
HeaderFiles ==
    { [size |-> s, bytes |-> HeaderBytes(m, n) @@ TableBytes(GoodCmds, SizeofMachHeader) @@ GoodBlob]
      : s \in SizeChoices, m \in MagicChoices, n \in SizeofcmdsChoices }
\* files that vary the load-command table
TableFiles ==
    { [size |-> s, bytes |-> HeaderBytes(MH_MAGIC_64, n) @@ TableBytes(cmds, SizeofMachHeader) @@ GoodBlob]
      : s \in SizeChoices, n \in {W(16), W(32), W(4080), W(4096)}, cmds \in SeqsUpTo(CmdChoices, MaxCmds) }
\* files that vary the header of the signature blob
BlobFiles ==
    { [size |-> 4096,
       bytes |-> HeaderBytes(MH_MAGIC_64, W(16)) @@ TableBytes(GoodCmds, SizeofMachHeader)
                 @@ BlobBytes(m, l, n, h, GoodEntries)]
      : m \in BlobMagicChoices, l \in BlobLengthChoices, n \in CountChoices, h \in HashTypeChoices }
\* files that vary the index of a super-blob
IndexFiles ==
    { [size |-> 4096,
       bytes |-> HeaderBytes(MH_MAGIC_64, W(16)) @@ TableBytes(GoodCmds, SizeofMachHeader)
                 @@ BlobBytes(CSMAGIC_EMBEDDED_SIGNATURE, W(BlobLen), W(Len(es)), 0, es)]
      : es \in SeqsUpTo(EntryChoices, MaxCount) }
Files == HeaderFiles \cup TableFiles \cup BlobFiles \cup IndexFiles

\* cdhash_out before the call: CS_CDHASH_LEN bytes the core has not written
Untouched == [k \in 1..CS_CDHASH_LEN |-> "old"]

Init ==
    /\ \E f \in Files : mem = f.bytes /\ size = f.size
    /\ pc = "compute_cdhash"
    /\ lc_p = 0 /\ lc_prev = NULL /\ loadcmd = NULL
    /\ blob = 0 /\ blob_size = 0 /\ sb_size = 0 /\ idx = 0
    /\ best_cd = NULL /\ best_cd_rank = 0 /\ best_cd_size = 0
    /\ cd = NULL
    /\ cdhash = Untouched /\ writes = 0
    /\ ret = "none"
    /\ rd_end = 0

(***************************************************************************)
(* compute_cdhash, one action per straight-line stretch or loop iteration. *)
(***************************************************************************)
Return(b) == pc' = "done" /\ ret' = b
Reads(e) == rd_end' = Max(rd_end, e)

\* macho_identify(mh, size)
macho_identify == ~(size < MinMachoSize \/ Read32(0) # MH_MAGIC_64)
\* the extent of the reads of macho_identify: mh->magic, unless size < 0x1000
IdentifyReadEnd == IF size < MinMachoSize THEN 0 ELSE 4

\* compute_cdhash up to the call of macho_validate
ComputeCdhash ==
    /\ pc = "compute_cdhash"
    /\ Reads(IdentifyReadEnd)
    /\ IF macho_identify
       THEN pc' = "macho_validate" /\ ret' = ret
       ELSE Return("false")
    /\ UNCHANGED <<mem, size, lc_p, lc_prev, loadcmd, blob, blob_size, sb_size, idx,
                   best_cd, best_cd_rank, best_cd_size, cd, cdhash, writes>>

sizeofcmds == Read32(SizeofcmdsOffset)
\* lc_end in macho_validate, and the end of the table in macho_next_load_command
lc_end == ToInt(WAdd(W(SizeofMachHeader), sizeofcmds))

\* macho_validate up to its loop
MachoValidate ==
    /\ pc = "macho_validate"
    /\ IF ~macho_identify
       THEN Reads(IdentifyReadEnd) /\ Return("false") /\ lc_p' = lc_p
       ELSE /\ Reads(SizeofcmdsOffset + 4)
            /\ IF WLt(W(size), sizeofcmds)
               THEN Return("false") /\ lc_p' = lc_p
               ELSE pc' = "validate_loop" /\ ret' = ret /\ lc_p' = SizeofMachHeader
    /\ UNCHANGED <<mem, size, lc_prev, loadcmd, blob, blob_size, sb_size, idx,
                   best_cd, best_cd_rank, best_cd_size, cd, cdhash, writes>>

\* lc->cmdsize >= 0x80000000
CmdsizeTooBig(cmdsize) == WLe(CmdsizeLimit, cmdsize)

\* one test of the while condition of macho_validate and, if it holds, one iteration
MachoValidateLoop ==
    /\ pc = "validate_loop"
    /\ IF lc_p < lc_end
       THEN LET cmdsize == Read32(lc_p + CmdsizeOffset)
                lc_next == WAdd(W(lc_p), cmdsize)
            IN /\ Reads(lc_p + SizeofLoadCommand)
               /\ IF CmdsizeTooBig(cmdsize) \/ WLt(W(lc_end), lc_next)
                  THEN Return("false") /\ UNCHANGED <<lc_p, lc_prev>>
                  ELSE /\ lc_prev' = lc_p
                       /\ lc_p' = ToInt(lc_next)
                       /\ UNCHANGED <<pc, ret>>
       ELSE /\ pc' = "find_load_command"
            /\ lc_prev' = NULL
            /\ UNCHANGED <<lc_p, ret, rd_end>>
    /\ UNCHANGED <<mem, size, loadcmd, blob, blob_size, sb_size, idx,
                   best_cd, best_cd_rank, best_cd_size, cd, cdhash, writes>>

\* macho_next_load_command(mh, size, lc)
macho_next_load_command(lc) ==
    LET next == IF lc = NULL THEN W(SizeofMachHeader)
                ELSE WAdd(W(lc), Read32(lc + CmdsizeOffset))
    IN IF WLe(WAdd(W(SizeofMachHeader), sizeofcmds), next) THEN NULL ELSE ToInt(next)
\* a search that passes over a matching command whose data region is out of bounds
CmdMatchesInBoundsOnly(o, command) ==
    /\ Read32(o) = W(command)
    /\ LET cs_data == Read32(o + DataoffOffset)
           cs_end == WAdd(cs_data, Read32(o + DatasizeOffset))
       IN WLt(W(0), cs_data) /\ WLt(cs_data, cs_end) /\ WLe(cs_end, W(size))
\* the test loadcmd->cmd == command of macho_find_load_command
CmdMatches(o, command) == Read32(o) = W(command)
\* the extent of the reads of one iteration of macho_find_load_command
FindReadEnd ==
    LET next == macho_next_load_command(loadcmd)
    IN Max(IF loadcmd = NULL THEN 0 ELSE loadcmd + SizeofLoadCommand,
           Max(SizeofcmdsOffset + 4, IF next = NULL THEN 0 ELSE next + 4))

\* one iteration of the loop of macho_find_load_command(mh, size, LC_CODE_SIGNATURE, NULL)
MachoFindLoadCommand ==
    /\ pc = "find_load_command"
    /\ LET next == macho_next_load_command(loadcmd)
       IN /\ Reads(FindReadEnd)
          /\ lc_prev' = loadcmd
          /\ loadcmd' = next
          /\ IF next = NULL \/ CmdMatches(next, LC_CODE_SIGNATURE)
             THEN pc' = "compute_cdhash_macho"
             ELSE pc' = pc
    /\ UNCHANGED <<mem, size, lc_p, blob, blob_size, sb_size, idx,
                   best_cd, best_cd_rank, best_cd_size, cd, cdhash, writes, ret>>

\* a bounds check that lets the region end one byte past the buffer
SignatureInBoundsOffByOne(dataoff, datasize) ==
    LET cs_data == WAdd(W(0), dataoff)
        cs_end == WAdd(cs_data, datasize)
    IN WLt(W(0), cs_data) /\ WLt(cs_data, cs_end) /\ WLe(cs_end, W(size + 1))
\* the bounds check of compute_cdhash_macho on cs_data and cs_end
SignatureInBounds(dataoff, datasize) ==
    LET cs_data == WAdd(W(0), dataoff)
        cs_end == WAdd(cs_data, datasize)
    IN WLt(W(0), cs_data) /\ WLt(cs_data, cs_end) /\ WLe(cs_end, W(size))

\* compute_cdhash_macho after the search, up to the call of csblob_cdhash
ComputeCdhashMacho ==
    /\ pc = "compute_cdhash_macho"
    /\ IF loadcmd = NULL
       THEN Return("false") /\ UNCHANGED <<blob, blob_size, rd_end>>
       ELSE LET dataoff == Read32(loadcmd + DataoffOffset)
                datasize == Read32(loadcmd + DatasizeOffset)
            IN /\ Reads(loadcmd + SizeofLinkeditDataCommand)
               /\ IF SignatureInBounds(dataoff, datasize)
                  THEN /\ blob' = ToInt(dataoff)
                       /\ blob_size' = ToInt(datasize)
                       /\ pc' = "csblob_cdhash" /\ ret' = ret
                  ELSE Return("false") /\ UNCHANGED <<blob, blob_size>>
    /\ UNCHANGED <<mem, size, lc_p, lc_prev, loadcmd, sb_size, idx,
                   best_cd, best_cd_rank, best_cd_size, cd, cdhash, writes>>

\* a validation without the test length > size
cs_codedirectory_validate_unchecked_length(cdo, avail) ==
    IF avail < SizeofCodeDirectory THEN 0
    ELSE IF ntohl(Read32(cdo)) # CSMAGIC_CODEDIRECTORY THEN 0
    ELSE ToInt(ntohl(Read32(cdo + LengthOffset)))
\* cs_codedirectory_validate(cd, size): the length, or 0
cs_codedirectory_validate(cdo, avail) ==
    IF avail < SizeofCodeDirectory THEN 0
    ELSE IF ntohl(Read32(cdo)) # CSMAGIC_CODEDIRECTORY THEN 0
    ELSE LET length == ntohl(Read32(cdo + LengthOffset))
         IN IF WLt(W(avail), length) THEN 0 ELSE ToInt(length)
\* the extent of its reads: cd->magic, then cd->length
CdValidateReadEnd(cdo, avail) ==
    IF avail < SizeofCodeDirectory THEN 0
    ELSE IF ntohl(Read32(cdo)) # CSMAGIC_CODEDIRECTORY THEN cdo + 4
    ELSE cdo + LengthOffset + 4

\* cs_superblob_validate(sb, size): the length, or 0
cs_superblob_validate(sbo, avail) ==
    IF avail < SizeofSuperBlob THEN 0
    ELSE IF ntohl(Read32(sbo)) # CSMAGIC_EMBEDDED_SIGNATURE THEN 0
    ELSE LET length == ntohl(Read32(sbo + LengthOffset))
         IN IF WLt(W(avail), length) THEN 0
            ELSE LET count == ntohl(Read32(sbo + CountOffset))
                     index == WAdd(W(sbo + SizeofSuperBlob), WMul(count, SizeofBlobIndex))
                 IN IF WLe(CountLimit, count) \/ WLt(W(sbo + avail), index) THEN 0
                    ELSE ToInt(length)
\* the extent of its reads: sb->magic, sb->length, sb->count
SbValidateReadEnd(sbo, avail) ==
    IF avail < SizeofSuperBlob THEN 0
    ELSE IF ntohl(Read32(sbo)) # CSMAGIC_EMBEDDED_SIGNATURE THEN sbo + 4
    ELSE IF WLt(W(avail), ntohl(Read32(sbo + LengthOffset))) THEN sbo + LengthOffset + 4
    ELSE sbo + CountOffset + 4

\* the extent of the reads of csblob_cdhash
CsblobReadEnd ==
    IF blob_size < SizeofGenericBlob THEN 0
    ELSE LET magic == ntohl(Read32(blob))
             length == ntohl(Read32(blob + LengthOffset))
         IN IF WLt(W(blob_size), length) THEN blob + SizeofGenericBlob
            ELSE IF magic = CSMAGIC_EMBEDDED_SIGNATURE
                 THEN Max(blob + SizeofGenericBlob, SbValidateReadEnd(blob, ToInt(length)))
            ELSE IF magic = CSMAGIC_CODEDIRECTORY
                 THEN Max(blob + SizeofGenericBlob, CdValidateReadEnd(blob, ToInt(length)))
            ELSE blob + SizeofGenericBlob

\* csblob_cdhash up to the call of cs_superblob_cdhash or cs_codedirectory_cdhash
CsblobCdhash ==
    /\ pc = "csblob_cdhash"
    /\ Reads(CsblobReadEnd)
    /\ IF blob_size < SizeofGenericBlob
       THEN Return("false") /\ UNCHANGED <<sb_size, cd>>
       ELSE LET magic == ntohl(Read32(blob))
                length == ntohl(Read32(blob + LengthOffset))
            IN IF WLt(W(blob_size), length)
               THEN Return("false") /\ UNCHANGED <<sb_size, cd>>
               ELSE IF magic = CSMAGIC_EMBEDDED_SIGNATURE
                    THEN IF cs_superblob_validate(blob, ToInt(length)) = 0
                         THEN Return("false") /\ UNCHANGED <<sb_size, cd>>
                         ELSE /\ pc' = "superblob_loop" /\ ret' = ret
                              /\ sb_size' = ToInt(length) /\ cd' = cd
               ELSE IF magic = CSMAGIC_CODEDIRECTORY
                    THEN IF cs_codedirectory_validate(blob, ToInt(length)) = 0
                         THEN Return("false") /\ UNCHANGED <<sb_size, cd>>
                         ELSE /\ pc' = "codedirectory_cdhash" /\ ret' = ret
                              /\ cd' = blob /\ sb_size' = sb_size
               ELSE Return("false") /\ UNCHANGED <<sb_size, cd>>
    /\ UNCHANGED <<mem, size, lc_p, lc_prev, loadcmd, blob, blob_size, idx,
                   best_cd, best_cd_rank, best_cd_size, cdhash, writes>>

\* cd->hashType
hashType(cdo) == Byte(cdo + HashTypeOffset)
\* ranked_hash_types of cs_codedirectory_rank
ranked_hash_types ==
    <<CS_HASHTYPE_SHA1, CS_HASHTYPE_SHA256_TRUNCATED, CS_HASHTYPE_SHA256, CS_HASHTYPE_SHA384>>
\* cs_codedirectory_rank(cd)
cs_codedirectory_rank(cdo) ==
    IF \E r \in 1..Len(ranked_hash_types) : ranked_hash_types[r] = hashType(cdo)
    THEN CHOOSE r \in 1..Len(ranked_hash_types) : ranked_hash_types[r] = hashType(cdo)
    ELSE 0

\* the slot types of cs_superblob_cdhash that hold a code directory
IsCodeDirectorySlot(type) ==
    \/ type = CSSLOT_CODEDIRECTORY
    \/ (WLe(CSSLOT_ALTERNATE_CODEDIRECTORIES, type) /\ WLt(type, CSSLOT_ALTERNATE_CODEDIRECTORY_LIMIT))

\* index[k] of the super-blob at blob
IndexType(k) == ntohl(Read32(blob + SizeofSuperBlob + SizeofBlobIndex * k))
IndexOffset(k) == ntohl(Read32(blob + SizeofSuperBlob + SizeofBlobIndex * k + 4))
SbCount == ToInt(ntohl(Read32(blob + CountOffset)))
\* an offset test against the size of the file instead of the super-blob
OffsetTooBigForFile(offset) == WLt(W(size), offset)
\* the test offset > size of cs_superblob_cdhash
OffsetTooBig(offset) == WLt(W(sb_size), offset)
\* a comparison under which a later code directory of equal rank replaces the best
BetterOrEqual(cd_rank, best_rank) == cd_rank >= best_rank
\* the test cd_rank > best_cd_rank
Better(cd_rank, best_rank) == cd_rank > best_rank

\* the extent of the reads of one iteration of the loop of cs_superblob_cdhash
SuperblobLoopReadEnd ==
    IF idx < SbCount
    THEN LET e == blob + SizeofSuperBlob + SizeofBlobIndex * (idx + 1)
             offset == IndexOffset(idx)
         IN IF OffsetTooBig(offset) \/ ~IsCodeDirectorySlot(IndexType(idx)) THEN e
            ELSE LET cdo == blob + ToInt(offset)
                     avail == sb_size - ToInt(offset)
                 IN IF cs_codedirectory_validate(cdo, avail) = 0
                    THEN Max(e, CdValidateReadEnd(cdo, avail))
                    ELSE Max(e, cdo + HashTypeOffset + 1)
    ELSE 0

\* one test of the for condition of cs_superblob_cdhash and, if it holds, one iteration;
\* after the loop, up to the call of cs_codedirectory_cdhash
CsSuperblobCdhash ==
    /\ pc = "superblob_loop"
    /\ Reads(SuperblobLoopReadEnd)
    /\ IF idx < SbCount
       THEN LET type == IndexType(idx)
                offset == IndexOffset(idx)
            IN IF OffsetTooBig(offset)
               THEN Return("false") /\ UNCHANGED <<idx, best_cd, best_cd_rank, best_cd_size, cd>>
               ELSE IF IsCodeDirectorySlot(type)
                    THEN LET cdo == blob + ToInt(offset)
                             cd_size == cs_codedirectory_validate(cdo, sb_size - ToInt(offset))
                             cd_rank == cs_codedirectory_rank(cdo)
                         IN IF cd_size = 0
                            THEN Return("false")
                                 /\ UNCHANGED <<idx, best_cd, best_cd_rank, best_cd_size, cd>>
                            ELSE /\ IF Better(cd_rank, best_cd_rank)
                                    THEN /\ best_cd' = cdo
                                         /\ best_cd_rank' = cd_rank
                                         /\ best_cd_size' = cd_size
                                    ELSE UNCHANGED <<best_cd, best_cd_rank, best_cd_size>>
                                 /\ idx' = idx + 1
                                 /\ UNCHANGED <<pc, ret, cd>>
                    ELSE /\ idx' = idx + 1
                         /\ UNCHANGED <<pc, ret, best_cd, best_cd_rank, best_cd_size, cd>>
       ELSE IF best_cd = NULL
            THEN Return("false") /\ UNCHANGED <<idx, best_cd, best_cd_rank, best_cd_size, cd>>
            ELSE /\ pc' = "codedirectory_cdhash" /\ cd' = best_cd
                 /\ UNCHANGED <<ret, idx, best_cd, best_cd_rank, best_cd_size>>
    /\ UNCHANGED <<mem, size, lc_p, lc_prev, loadcmd, blob, blob_size, sb_size, cdhash, writes>>

\* CC_SHA1 / CC_SHA256 over the bytes o..o+n-1: the digest bytes, by position
DigestLength(alg) == IF alg = "SHA1" THEN CC_SHA1_DIGEST_LENGTH ELSE CC_SHA256_DIGEST_LENGTH
Digest(alg, o, n) == [k \in 1..DigestLength(alg) |-> <<alg, o, n, k>>]
\* a copy of the whole digest, whatever its length
MemcpyWholeDigest(digest) == digest
\* cdhash_sha1, cdhash_sha256: memcpy(cdhash, digest, CS_CDHASH_LEN)
Memcpy(digest) == [k \in 1..CS_CDHASH_LEN |-> digest[k]]

\* a switch whose default falls into the SHA-256 case
HashAlgDefaultSha256(t) == IF t = CS_HASHTYPE_SHA1 THEN "SHA1" ELSE "SHA256"
\* the hash types cs_codedirectory_cdhash has a case for
HashAlg(t) == IF t = CS_HASHTYPE_SHA1 THEN "SHA1"
              ELSE IF t = CS_HASHTYPE_SHA256 THEN "SHA256" ELSE "none"
\* the length cs_codedirectory_cdhash hashes: ntohl(cd->length)
HashedLength(cdo) == ToInt(ntohl(Read32(cdo + LengthOffset)))
\* the extent of the reads of cs_codedirectory_cdhash
CdhashReadEnd ==
    IF HashAlg(hashType(cd)) = "none" THEN Max(cd + LengthOffset + 4, cd + HashTypeOffset + 1)
    ELSE Max(cd + HashTypeOffset + 1, cd + HashedLength(cd))

\* cs_codedirectory_cdhash(cd, size, cdhash)
CsCodedirectoryCdhash ==
    /\ pc = "codedirectory_cdhash"
    /\ Reads(CdhashReadEnd)
    /\ LET alg == HashAlg(hashType(cd))
       IN IF alg = "none"
          THEN Return("false") /\ UNCHANGED <<cdhash, writes>>
          ELSE /\ cdhash' = Memcpy(Digest(alg, cd, HashedLength(cd)))
               /\ writes' = writes + 1
               /\ Return("true")
    /\ UNCHANGED <<mem, size, lc_p, lc_prev, loadcmd, blob, blob_size, sb_size, idx,
                   best_cd, best_cd_rank, best_cd_size, cd>>

\* the extent of the reads the step at pc is about to make
PendingReadEnd ==
    CASE pc = "compute_cdhash" -> IdentifyReadEnd
      [] pc = "macho_validate" -> IF macho_identify THEN SizeofcmdsOffset + 4 ELSE IdentifyReadEnd
      [] pc = "validate_loop" -> IF lc_p < lc_end THEN lc_p + SizeofLoadCommand ELSE 0
      [] pc = "find_load_command" -> FindReadEnd
      [] pc = "compute_cdhash_macho" ->
            IF loadcmd = NULL THEN 0 ELSE loadcmd + SizeofLinkeditDataCommand
      [] pc = "csblob_cdhash" -> CsblobReadEnd
      [] pc = "superblob_loop" -> SuperblobLoopReadEnd
      [] pc = "codedirectory_cdhash" -> CdhashReadEnd
      [] OTHER -> 0

\* a read past the end of the caller's buffer is undefined: it yields whatever lies
\* there (the steps above) or the process faults
Fault ==
    /\ pc \notin {"done", "fault"}
    /\ PendingReadEnd > size
    /\ Reads(PendingReadEnd)
    /\ pc' = "fault"
    /\ UNCHANGED <<mem, size, lc_p, lc_prev, loadcmd, blob, blob_size, sb_size, idx,
                   best_cd, best_cd_rank, best_cd_size, cd, cdhash, writes, ret>>

Next ==
    \/ ComputeCdhash
    \/ MachoValidate
    \/ MachoValidateLoop
    \/ MachoFindLoadCommand
    \/ ComputeCdhashMacho
    \/ CsblobCdhash
    \/ CsSuperblobCdhash
    \/ CsCodedirectoryCdhash
    \/ Fault

Spec == Init /\ [][Next]_vars

(***************************************************************************)
(* The claims.                                                             *)
(***************************************************************************)

\* C1: no read of compute_cdhash falls outside the caller's buffer [0, size):
\* every read of bytes o..o+w-1 has o+w <= size.
C1_ReadsInBounds == rd_end <= size

\* C2: the load-command walk of macho_validate and the search of
\* macho_find_load_command advance strictly through the command table at every
\* iteration, whatever cmdsize a command declares, and the index loop of
\* cs_superblob_cdhash runs at most count < 0x10000 iterations.
C2_StrictAdvance ==
    /\ (pc = "validate_loop" /\ lc_prev # NULL) => lc_p > lc_prev
    /\ (pc \in {"find_load_command", "compute_cdhash_macho"} /\ lc_prev # NULL /\ loadcmd # NULL)
          => loadcmd > lc_prev
    /\ pc = "superblob_loop" => (idx <= SbCount /\ SbCount < 65536)

\* C3: cdhash_out is written only on a call that returns true: while the call has
\* not returned true the buffer is unchanged, and when it returns true exactly
\* CS_CDHASH_LEN bytes were written, by one write.
C3_WrittenOnlyOnSuccess ==
    /\ ret # "true" => (cdhash = Untouched /\ writes = 0)
    /\ ret = "true" => /\ writes = 1
                       /\ DOMAIN cdhash = 1..20
                       /\ \A k \in 1..20 : cdhash[k] # "old"
\* C3 witness: the call got as far as cs_codedirectory_cdhash and returned false
C3_Witness == pc = "done" /\ ret = "false" /\ cd # NULL /\ cdhash = Untouched

\* the index entries of the super-blob that name a code directory
Qualifying == {k \in 0..(SbCount - 1) : IsCodeDirectorySlot(IndexType(k))}
\* the order SHA1 < SHA256_TRUNCATED < SHA256 < SHA384 on hash types 1, 3, 2, 4
RankOf(t) == CASE t = 1 -> 1 [] t = 3 -> 2 [] t = 2 -> 3 [] t = 4 -> 4 [] OTHER -> 0
EntryCd(k) == blob + ToInt(IndexOffset(k))
EntryRank(k) == RankOf(Byte(EntryCd(k) + 37))
\* the lowest-index entry among the qualifying entries of maximum rank
IsFirstBest(j) ==
    /\ j \in Qualifying
    /\ \A k \in Qualifying : EntryRank(k) < EntryRank(j) \/ (EntryRank(k) = EntryRank(j) /\ j <= k)
\* the index loop has run over all count entries
LoopDone == sb_size > 0 /\ idx = SbCount /\ pc \in {"superblob_loop", "codedirectory_cdhash", "done"}
\* the code directory cs_superblob_cdhash handed to cs_codedirectory_cdhash
Handed == sb_size > 0 /\ cd # NULL

\* C4: the code directory cs_superblob_cdhash hands to hashing is the qualifying
\* entry of maximum rank, the lowest index among equals; one is handed whenever
\* some qualifying entry has a ranked hash type; with one SHA-1 and one SHA-256
\* code directory the digest is the SHA-256 one's for either order.
C4_BestRankSelected ==
    /\ Handed => \E j \in Qualifying :
                    /\ IsFirstBest(j)
                    /\ cd = EntryCd(j)
                    /\ best_cd_rank = EntryRank(j)
                    /\ best_cd_size = ToInt(ntohl(Read32(EntryCd(j) + 4)))
    /\ (LoopDone /\ pc # "superblob_loop" /\ \E k \in Qualifying : EntryRank(k) > 0) => Handed
    /\ (pc = "done" /\ Handed /\ SbCount = 2 /\ Qualifying = {0, 1}
        /\ {Byte(EntryCd(0) + 37), Byte(EntryCd(1) + 37)} = {1, 2})
          => \E j \in {0, 1} : /\ Byte(EntryCd(j) + 37) = 2
                               /\ ret = "true"
                               /\ cdhash[1] = <<"SHA256", EntryCd(j), ToInt(ntohl(Read32(EntryCd(j) + 4))), 1>>
\* C4 witness: a SHA-1 code directory at index 0 and a SHA-256 one at index 1; the SHA-256 one is hashed
C4_Witness ==
    /\ pc = "done" /\ ret = "true" /\ Handed /\ SbCount = 2
    /\ IndexOffset(0) = W(64) /\ IndexOffset(1) = W(160)
    /\ cd = blob + 160

\* C5: a success implies 0 < dataoff < dataoff + datasize <= size for the
\* LC_CODE_SIGNATURE command used, so the same bytes with a size below
\* dataoff + datasize are rejected.
C5_RegionInsideBuffer ==
    ret = "true" =>
        LET dataoff == ToInt(Read32(loadcmd + 8))
            datasize == ToInt(Read32(loadcmd + 12))
        IN /\ 0 < dataoff /\ dataoff < dataoff + datasize /\ dataoff + datasize <= size
           /\ blob = dataoff /\ blob_size = datasize
\* C5 witness: a success whose region ends past offset 4096, in a larger buffer
C5_Witness == ret = "true" /\ blob + blob_size > 4096 /\ size > 4096

\* C6: when the highest-ranked qualifying code directory of a super-blob has hash
\* type SHA256_TRUNCATED or SHA384 the call returns false, also when a valid
\* SHA1 or SHA256 code directory is present.
C6_UnhashableWinnerFails ==
    (pc = "done" /\ LoopDone /\ \E j \in Qualifying : IsFirstBest(j) /\ Byte(EntryCd(j) + 37) \in {3, 4})
        => ret = "false"
\* C6 witness: a valid SHA-1 code directory and a SHA-384 one; the call fails
C6_Witness ==
    /\ pc = "done" /\ ret = "false" /\ LoopDone /\ SbCount = 2
    /\ IndexOffset(0) = W(64) /\ IndexOffset(1) = W(264)
    /\ cd = blob + 264

\* an index entry that fails the container
BadEntry(k) ==
    \/ WLt(W(sb_size), IndexOffset(k))
    \/ /\ IsCodeDirectorySlot(IndexType(k))
       /\ cs_codedirectory_validate(EntryCd(k), sb_size - ToInt(IndexOffset(k))) = 0

\* C7: if any of the count index entries, of any slot type, has an offset above
\* the super-blob size, or any code-directory entry fails validation, then
\* cs_superblob_cdhash returns false, wherever the entry is.
C7_BadEntryFailsContainer ==
    (pc = "done" /\ sb_size > 0 /\ \E k \in 0..(SbCount - 1) : BadEntry(k)) => ret = "false"
\* C7 witness: a valid SHA-256 code directory first, then an entry of another
\* slot type whose offset is past the super-blob
C7_Witness ==
    /\ pc = "done" /\ ret = "false" /\ sb_size > 0 /\ SbCount = 2 /\ idx = 1
    /\ IndexType(0) = CSSLOT_CODEDIRECTORY /\ IndexOffset(0) = W(160)
    /\ IndexType(1) = CSSLOT_REQUIREMENTS /\ WLt(W(sb_size), IndexOffset(1))

\* C8: every code directory that reaches hashing has a declared length of at
\* least the size of the CS_CodeDirectory structure.
C8_HashedLengthAtLeastStruct ==
    (pc \in {"codedirectory_cdhash", "done"} /\ cd # NULL)
        => ToInt(ntohl(Read32(cd + 4))) >= SizeofCodeDirectory

\* the first LC_CODE_SIGNATURE command of a validated table, in table order
RECURSIVE FirstSignature(_)
FirstSignature(o) ==
    IF o >= 32 + ToInt(Read32(20)) THEN NULL
    ELSE IF Read32(o) = W(29) THEN o
    ELSE FirstSignature(o + ToInt(Read32(o + 4)))

\* C9: only the first LC_CODE_SIGNATURE command counts: a success uses it and its
\* region passed the bounds check; with none, or with a first one whose region
\* is out of bounds, the call returns false even if a later one is valid.
C9_FirstSignatureOnly ==
    (pc = "done" /\ ret = "true") =>
        LET first == FirstSignature(32)
        IN /\ first # NULL
           /\ loadcmd = first
           /\ blob = ToInt(Read32(first + 8))
           /\ 0 < blob /\ blob_size > 0 /\ blob + blob_size <= size
\* C9 witness: the first LC_CODE_SIGNATURE has datasize 0, the second names the
\* valid signature; the call fails on the first
C9_Witness ==
    /\ pc = "done" /\ ret = "false" /\ size = 4096 /\ loadcmd = 32
    /\ Read32(20) = W(32)
    /\ Read32(32) = W(29) /\ Read32(32 + 12) = W(0)
    /\ Read32(48) = W(29) /\ Read32(48 + 8) = W(3072) /\ Read32(48 + 12) = W(1024)

\* C10: on success the hashed range lies inside the outermost blob's declared
\* length, which lies inside the signature region, which lies inside [0, size).
C10_NestedContainment ==
    ret = "true" =>
        LET start == cdhash[1][2]
            length == cdhash[1][3]
            outer == ToInt(ntohl(Read32(blob + 4)))
        IN /\ start = cd /\ length = ToInt(ntohl(Read32(cd + 4)))
           /\ blob <= start /\ start + length <= blob + outer
           /\ outer <= blob_size
           /\ 0 <= blob /\ blob + blob_size <= size
           /\ sb_size > 0 => sb_size = outer
\* C10 witness: a code directory selected from a super-blob, inside the blob
C10_Witness == ret = "true" /\ sb_size > 0 /\ cd > blob /\ cd + cdhash[1][3] < blob + sb_size

====
